---- MODULE Spec2Model ----
(***************************************************************************)
(* Lifecycle, StateMachine and Queue of src/src/index.js as one state      *)
(* machine.  One step of the model is one synchronous run of JavaScript:   *)
(* a public call made by user code, the settling of a user callback, or    *)
(* one job of the microtask queue: the resumption of #run after its await, *)
(* of #processQueue after the processor's promise settled, of              *)
(* Lifecycle.until after its await, or of the caller that awaited it.      *)
(* MachineSpec and QueueSpec are a StateMachine and a Queue used directly. *)
(***************************************************************************)
EXTENDS Naturals, Sequences, FiniteSets

\* ------------------------------------------------------------------ bounds
\* number of open/close/suspend/resume/transition/reset/on/until/enqueue calls
\* and of direct calls that throw a behaviour makes
MaxCalls == 4

\* ------------------------------------------------------------- vocabulary
States ==
    {"init", "opening", "opened", "suspending", "suspended",
     "resuming", "resumed", "closing", "closed"}

OperatorNames == {"open", "close", "suspend", "resume"}

\* names that a property lookup on the #operations object literal finds on
\* Object.prototype
InheritedNames == {"toString"}

\* operator names a caller of the generic transition() passes: a registered
\* one, an inherited one and one that is found nowhere
TransitionOperators == {"open", "toString", "restart"}
\* labels a caller of the generic transition() passes as interimState
InterimLabels == {"opening", "suspending"}
\* labels a caller of the generic transition() passes as toState
TargetLabels == {"closing"}

\* states a caller of Lifecycle.until waits for
UntilLabels == {"opened", "suspended"}

\* the error the user callback of each operation throws when it fails
ErrorOf(op) == op \o " failed"

\* the error StateMachine.transition throws
InvalidTransition == "Invalid transition"

\* the message of the error Lifecycle.transition throws
UnknownOperator(operator) == "Unknown operator name: " \o operator

\* its message: `Invalid transition from ${this.#current} to ${toState}`
InvalidTransitionFrom(from, toState) ==
    InvalidTransition \o " from " \o from \o " to " \o toState

Errors == {ErrorOf(op) : op \in OperatorNames}

\* a table in which an opened resource can be opened again
transitionsReopen ==
    [s \in States |->
        CASE s = "init"       -> {"opening"}
          [] s = "opening"    -> {"opened"}
          [] s = "opened"     -> {"suspending", "closing", "opening"}
          [] s = "suspending" -> {"suspended", "closing"}
          [] s = "suspended"  -> {"resuming", "closing"}
          [] s = "resuming"   -> {"resumed"}
          [] s = "resumed"    -> {"suspending", "closing"}
          [] s = "closing"    -> {"closed"}
          [] s = "closed"     -> {}]

\* a table in which a failed open can be retried from opening
transitionsRetry ==
    [s \in States |->
        CASE s = "init"       -> {"opening"}
          [] s = "opening"    -> {"opened", "opening"}
          [] s = "opened"     -> {"suspending", "closing"}
          [] s = "suspending" -> {"suspended", "closing"}
          [] s = "suspended"  -> {"resuming", "closing"}
          [] s = "resuming"   -> {"resumed"}
          [] s = "resumed"    -> {"suspending", "closing"}
          [] s = "closing"    -> {"closed"}
          [] s = "closed"     -> {}]

\* a table in which suspending, like resuming, cannot be closed
transitionsNoCloseWhileSuspending ==
    [s \in States |->
        CASE s = "init"       -> {"opening"}
          [] s = "opening"    -> {"opened"}
          [] s = "opened"     -> {"suspending", "closing"}
          [] s = "suspending" -> {"suspended"}
          [] s = "suspended"  -> {"resuming", "closing"}
          [] s = "resuming"   -> {"resumed"}
          [] s = "resumed"    -> {"suspending", "closing"}
          [] s = "closing"    -> {"closed"}
          [] s = "closed"     -> {}]

\* a table in which a closed resource can be opened again
transitionsRestart ==
    [s \in States |->
        CASE s = "init"       -> {"opening"}
          [] s = "opening"    -> {"opened"}
          [] s = "opened"     -> {"suspending", "closing"}
          [] s = "suspending" -> {"suspended", "closing"}
          [] s = "suspended"  -> {"resuming", "closing"}
          [] s = "resuming"   -> {"resumed"}
          [] s = "resumed"    -> {"suspending", "closing"}
          [] s = "closing"    -> {"closed"}
          [] s = "closed"     -> {"opening"}]

\* the #transitions table of the Lifecycle constructor
transitions ==
    [s \in States |->
        CASE s = "init"       -> {"opening"}
          [] s = "opening"    -> {"opened"}
          [] s = "opened"     -> {"suspending", "closing"}
          [] s = "suspending" -> {"suspended", "closing"}
          [] s = "suspended"  -> {"resuming", "closing"}
          [] s = "resuming"   -> {"resumed"}
          [] s = "resumed"    -> {"suspending", "closing"}
          [] s = "closing"    -> {"closed"}
          [] s = "closed"     -> {}]

\* the table of the test 'StateMachine waits for state changes'
ProcessingTable ==
    [s \in {"init", "processing", "error", "complete"} |->
        CASE s = "init"       -> {"processing", "error"}
          [] s = "processing" -> {"complete", "error"}
          [] s = "error"      -> {"init"}
          [] s = "complete"   -> {}]

\* the table of the test 'StateMachine resolves immediately for current
\* state': stopped has no entry
StartedTable ==
    [s \in {"init", "started"} |->
        CASE s = "init"    -> {"started"}
          [] s = "started" -> {"stopped"}]

\* the tables a StateMachine that is used directly is constructed with
MachineTables == {ProcessingTable, StartedTable}

\* the states a direct caller of StateMachine.transition and .until passes
MachineLabels == {"init", "error", "started", "stopped"}

\* the payloads of the test 'Queue handles errors properly'
Payloads == {"success", "error", "continue"}

\* --------------------------------------------------------------- variables
VARIABLES
    items,         \* Queue.#items: the pending descriptors, head first
    processing,    \* Queue.#processing
    stateMachine,  \* Lifecycle.#stateMachine: [transitions, current, resolvers]
    onTransition,  \* Lifecycle.#onTransition: "noop" or the observer installed,
                   \* "observer" by the first on() call, "observer2" by the second
    inflight,      \* user callbacks invoked by #run and not yet settled
    microtasks,    \* the microtask queue: the resumptions that are due, oldest first
    handle,        \* per enqueued item, the promise of enqueue: "pending", "resolved"
                   \* (by resolve(), which passes no value) or the error of reject(error)
    submitted,     \* the descriptors enqueued so far, in order, with the method called
    started,       \* ids in the order the processor was started on them
    settled,       \* ids in the order their handles were settled
    invoked,       \* ids in the order #run invoked their user callback
    ran,           \* [id, outcome] in the order the promises of #run settled
    notified,      \* the states #onTransition was called with, in order
    heard,         \* per notification, the observer that was called
    trace,         \* every value #current took since construction
    resets,        \* number of reset() calls made
    onAt,          \* number of descriptors submitted before on() was called
    waiters,       \* per until() call: the promises it got and what its caller saw
    thrown         \* the errors of the calls that failed at once, in order

vars ==
    <<items, processing, stateMachine, onTransition, inflight, microtasks,
      handle, submitted, started, settled, invoked, ran, notified, heard, trace,
      resets, onAt, waiters, thrown>>

\* get state
current == stateMachine.current

\* the calls made so far that count against MaxCalls
Calls ==
    Len(submitted) + resets
        + (CASE onTransition = "noop" -> 0
             [] onTransition = "observer" -> 1
             [] onTransition = "observer2" -> 2)
        + Len(waiters) + Len(thrown)

\* ------------------------------------------------------------ StateMachine
\* new StateMachine(table)
NewStateMachine(table) ==
    [transitions |-> table, current |-> "init", resolvers |-> {}]

\* a machine that allows every transition
AllowsAny(sm, toState) == TRUE

\* a machine that allows every transition from a state without an entry
AllowsWithoutEntry(sm, toState) ==
    sm.current \in DOMAIN sm.transitions => toState \in sm.transitions[sm.current]

\* StateMachine.allows
Allows(sm, toState) ==
    LET allowed == IF sm.current \in DOMAIN sm.transitions
                   THEN sm.transitions[sm.current] ELSE {}
    IN  toState \in allowed

\* StateMachine.transition: the machine after the call, whether the call
\* threw and the message of the error it threw
SMTransition(sm, toState) ==
    IF ~Allows(sm, toState)
    THEN [sm |-> sm, threw |-> TRUE,
          error |-> InvalidTransitionFrom(sm.current, toState)]
    ELSE [sm |-> [sm EXCEPT !.current = toState,
                            !.resolvers = @ \ {toState}],
          threw |-> FALSE, error |-> ""]

\* an until that registers a waiter for the current state too
SMUntilAlways(sm, queryState) ==
    [sm EXCEPT !.resolvers = @ \cup {queryState}]

\* StateMachine.until: the machine after the call
SMUntil(sm, queryState) ==
    IF sm.current = queryState
    THEN sm
    ELSE [sm EXCEPT !.resolvers = @ \cup {queryState}]

\* a waiter table that outlives the machine reset() replaced
AwaitingAnyMachine(ws, toState) ==
    {w \in 1..Len(ws) : /\ ws[w].promise = "pending"
                        /\ ws[w].query = toState}

\* the until() calls whose promise a transition of the current machine to
\* toState resolves: they share the pending promise of toState
Awaiting(ws, toState) ==
    {w \in 1..Len(ws) : /\ ws[w].promise = "pending"
                        /\ ws[w].query = toState
                        /\ ws[w].machine = resets}

\* a transition that resolves the promise of the newest until() call only
ReleasedNewest(ws, toState) ==
    [w \in 1..Len(ws) |->
        IF w \in Awaiting(ws, toState) /\ \A v \in Awaiting(ws, toState) : v <= w
        THEN [ws[w] EXCEPT !.promise = "resolved"]
        ELSE ws[w]]

\* StateMachine.transition: this.#transitionResolvers[toState]()
Released(ws, toState) ==
    [w \in 1..Len(ws) |->
        IF w \in Awaiting(ws, toState)
        THEN [ws[w] EXCEPT !.promise = "resolved"]
        ELSE ws[w]]

\* the resumption of Lifecycle.until call w after its await
UntilJob(w) == [kind |-> "until", id |-> w, outcome |-> ""]

\* the resumption of the caller that awaits Lifecycle.until call w
CallerJob(w) == [kind |-> "caller", id |-> w, outcome |-> ""]

\* the resumption of #run after `await operation()`, the callback of
\* descriptor id having returned (ok) or thrown
RunJob(id, ok) ==
    [kind |-> "run", id |-> id, outcome |-> IF ok THEN "ok" ELSE "thrown"]

\* the resumption of #processQueue after the run r of the processor
ProcessQueueJob(r) == [kind |-> "processQueue", id |-> r.id, outcome |-> r.outcome]

\* a Lifecycle.until that hands the promise of the machine to its caller
ReleaseJobsCaller(ws, toState) ==
    LET all == [w \in 1..Len(ws) |-> w]
        due == SelectSeq(all, LAMBDA w : w \in Awaiting(ws, toState))
    IN  [k \in 1..Len(due) |-> CallerJob(due[k])]

\* the reactions the resolved promise of toState queues: one resumption per
\* Lifecycle.until call awaiting it, in the order of the calls
ReleaseJobs(ws, toState) ==
    LET all == [w \in 1..Len(ws) |-> w]
        due == SelectSeq(all, LAMBDA w : w \in Awaiting(ws, toState)
                                          /\ ws[w].outer = "pending")
    IN  [k \in 1..Len(due) |-> UntilJob(due[k])]

\* ------------------------------------------------------------------- Queue
RemoveAt(s, i) == SubSeq(s, 1, i - 1) \o SubSeq(s, i + 1, Len(s))

\* an observer that is told of the final states only
NotifyFinalOnly(seq, state) ==
    IF onTransition = "noop" \/ state \notin {"opened", "suspended", "resumed", "closed"}
    THEN seq
    ELSE Append(seq, state)

\* the observer call this.#onTransition(state)
Notify(seq, state) ==
    IF onTransition = "noop" THEN seq ELSE Append(seq, state)

\* a controller that goes on calling the observer registered first
CalledFirst(seq) ==
    IF onTransition = "noop" THEN seq ELSE Append(seq, "observer")

\* the callback this.#onTransition(state) calls: the one installed last
Called(seq) ==
    IF onTransition = "noop" THEN seq ELSE Append(seq, onTransition)

\* a drain loop that takes the newest item
NextItemNewest(its) == its[Len(its)]

\* #processQueue picks this.#items[0]
NextItem(its) == its[1]

\* a drain loop that forgets to shift
ShiftNothing(its) == its

\* #processQueue: this.#items.shift()
Shift(its) == IF Len(its) = 0 THEN its ELSE Tail(its)

\* a #run without the guard
RunBlockedNever(sm, d) == FALSE

\* a #run whose guard is inverted
RunBlockedInverted(sm, d) == Allows(sm, d.interimState)

\* the guard of #run: the current state has no edge to interimState
RunBlocked(sm, d) == ~Allows(sm, d.interimState)

\* a drain loop that starts the processor and goes on without awaiting it
RunBeginNoAwait(its, mt) ==
    LET d == NextItem(its)
        t == SMTransition(stateMachine, d.interimState)
        job == [id |-> d.id, outcome |-> "ok"]
    IN  /\ started' = Append(started, d.id)
        /\ microtasks' = Append(mt, ProcessQueueJob(job))
        /\ waiters' = waiters
        /\ IF RunBlocked(stateMachine, d) \/ t.threw
           THEN /\ ran' = Append(ran, job)
                /\ UNCHANGED <<stateMachine, notified, heard, trace, invoked, inflight>>
           ELSE /\ stateMachine' = t.sm
                /\ notified' = Notify(notified, d.interimState)
                /\ heard' = Called(heard)
                /\ trace' = Append(trace, d.interimState)
                /\ invoked' = Append(invoked, d.id)
                /\ inflight' = Append(inflight, d)
                /\ ran' = ran

\* the part of Lifecycle.#run up to `await operation()`, run synchronously by
\* #processQueue on the item it picked; mt is the microtask queue so far
RunBegin(its, mt) ==
    LET d == NextItem(its)
        t == SMTransition(stateMachine, d.interimState)
        returned == [id |-> d.id, outcome |-> "ok"]
        rejected == [id |-> d.id, outcome |-> InvalidTransition]
    IN  /\ started' = Append(started, d.id)
        /\ IF RunBlocked(stateMachine, d)
           THEN \* return: the promise of #run is resolved, #processQueue
                \* resumes in a later microtask
                /\ microtasks' = Append(mt, ProcessQueueJob(returned))
                /\ ran' = Append(ran, returned)
                /\ UNCHANGED <<stateMachine, notified, heard, trace, invoked, inflight,
                               waiters>>
           ELSE IF t.threw
           THEN \* the promise of #run is rejected with the error thrown
                /\ microtasks' = Append(mt, ProcessQueueJob(rejected))
                /\ ran' = Append(ran, rejected)
                /\ UNCHANGED <<stateMachine, notified, heard, trace, invoked, inflight,
                               waiters>>
           ELSE /\ stateMachine' = t.sm
                /\ notified' = Notify(notified, d.interimState)
                /\ heard' = Called(heard)
                /\ trace' = Append(trace, d.interimState)
                /\ invoked' = Append(invoked, d.id)
                /\ inflight' = Append(inflight, d)
                /\ waiters' = Released(waiters, d.interimState)
                /\ microtasks' = mt \o ReleaseJobs(waiters, d.interimState)
                /\ ran' = ran

\* Queue.enqueue, with the synchronous start of #processQueue when idle;
\* api is the public method that was called
QueueEnqueue(api, operation, interimState, toState) ==
    LET id == Len(submitted) + 1
        d == [id |-> id, operation |-> operation,
              interimState |-> interimState, toState |-> toState]
        its == Append(items, d)
    IN  /\ Calls < MaxCalls
        /\ submitted' = Append(submitted, [api |-> api, item |-> d])
        /\ items' = its
        /\ handle' = Append(handle, "pending")
        /\ IF ~processing
           THEN /\ processing' = TRUE
                /\ RunBegin(its, microtasks)
           ELSE UNCHANGED <<processing, stateMachine, notified, heard, trace, invoked,
                            ran, inflight, microtasks, started, waiters>>
        /\ UNCHANGED <<onTransition, settled, resets, onAt, thrown>>

\* ---------------------------------------------------------------- Lifecycle
Open == QueueEnqueue("open", "open", "opening", "opened")

Close == QueueEnqueue("close", "close", "closing", "closed")

Suspend == QueueEnqueue("suspend", "suspend", "suspending", "suspended")

Resume == QueueEnqueue("resume", "resume", "resuming", "resumed")

\* this.#operations[operator]: the registered callback, the member of
\* Object.prototype of that name, or undefined
Operations(operator) ==
    IF operator \in OperatorNames \cup InheritedNames
    THEN operator
    ELSE "undefined"

\* Lifecycle.transition
Transition ==
    \E operator \in TransitionOperators, interimState \in InterimLabels,
       toState \in TargetLabels :
        IF Operations(operator) = "undefined"
        THEN /\ Calls < MaxCalls
             /\ thrown' = Append(thrown, UnknownOperator(operator))
             /\ UNCHANGED <<items, processing, stateMachine, onTransition,
                            inflight, microtasks, handle, submitted, started,
                            settled, invoked, ran, notified, heard, trace, resets,
                            onAt, waiters>>
        ELSE QueueEnqueue("transition", Operations(operator), interimState,
                          toState)

\* Lifecycle.until, up to its await: the promise of StateMachine.until is
\* resolved when the state is queryState already, and then the resumption is
\* due at once
Until ==
    \E queryState \in UntilLabels :
        LET w == Len(waiters) + 1
            now == current = queryState
        IN  /\ Calls < MaxCalls
            /\ stateMachine' = SMUntil(stateMachine, queryState)
            /\ waiters' = Append(waiters,
                    [query |-> queryState, machine |-> resets,
                     from |-> current,
                     promise |-> IF now THEN "resolved" ELSE "pending",
                     outer |-> "pending", saw |-> ""])
            /\ microtasks' = IF now THEN Append(microtasks, UntilJob(w))
                             ELSE microtasks
            /\ UNCHANGED <<items, processing, onTransition, inflight, handle,
                           submitted, thrown, started, settled, invoked, ran,
                           notified, heard, trace, resets, onAt>>

\* Lifecycle.until resumes after its await and returns: the promise it gave
\* its caller is resolved and the caller's resumption is due
UntilResume ==
    /\ Len(microtasks) > 0
    /\ Head(microtasks).kind = "until"
    /\ LET w == Head(microtasks).id
       IN  /\ waiters' = [waiters EXCEPT ![w].outer = "resolved"]
           /\ microtasks' = Append(Tail(microtasks), CallerJob(w))
    /\ UNCHANGED <<items, processing, stateMachine, onTransition, inflight,
                   handle, submitted, thrown, started, settled, invoked, ran, notified, heard,
                   trace, resets, onAt>>

\* the caller that awaited Lifecycle.until resumes and reads lifecycle.state
CallerResume ==
    /\ Len(microtasks) > 0
    /\ Head(microtasks).kind = "caller"
    /\ LET w == Head(microtasks).id
       IN  waiters' = [waiters EXCEPT ![w].saw = current]
    /\ microtasks' = Tail(microtasks)
    /\ UNCHANGED <<items, processing, stateMachine, onTransition, inflight,
                   handle, submitted, thrown, started, settled, invoked, ran, notified, heard,
                   trace, resets, onAt>>

\* Lifecycle.on
On ==
    /\ Calls < MaxCalls
    /\ onTransition # "observer2"
    /\ onTransition' = IF onTransition = "noop" THEN "observer" ELSE "observer2"
    /\ onAt' = IF onTransition = "noop" THEN Len(submitted) ELSE onAt
    /\ UNCHANGED <<items, processing, stateMachine, inflight, microtasks,
                   handle, submitted, thrown, started, settled, invoked, ran, notified, heard,
                   trace, resets, waiters>>

\* a reset that also puts the no-op observer back
ResetForgetsObserver ==
    /\ Calls < MaxCalls
    /\ resets' = resets + 1
    /\ stateMachine' = NewStateMachine(transitions)
    /\ trace' = Append(trace, "init")
    /\ onTransition' = "noop"
    /\ UNCHANGED <<items, processing, inflight, microtasks,
                   handle, submitted, thrown, started, settled, invoked, ran, notified, heard,
                   onAt, waiters>>

\* Lifecycle.reset
Reset ==
    /\ Calls < MaxCalls
    /\ resets' = resets + 1
    /\ stateMachine' = NewStateMachine(transitions)
    /\ trace' = Append(trace, "init")
    /\ UNCHANGED <<items, processing, onTransition, inflight, microtasks,
                   handle, submitted, thrown, started, settled, invoked, ran, notified, heard,
                   onAt, waiters>>

\* a final transition that is made whether or not the callback threw
FinalStepAlways(sm, d, ok) ==
    /\ sm.current = d.interimState
    /\ Allows(sm, d.toState)

\* a #run that makes the final transition without asking allows
FinalStepUnguarded(sm, d, ok) ==
    /\ ok
    /\ sm.current = d.interimState

\* a #run that never makes the final transition
FinalStepNever(sm, d, ok) == FALSE

\* the condition of the final transition of #run, after `await operation()`
\* returned (ok) or threw (~ok)
FinalStep(sm, d, ok) ==
    /\ ok
    /\ sm.current = d.interimState
    /\ Allows(sm, d.toState)

\* #run resumes after `await operation()` on the descriptor inflight[i],
\* whose callback returned (ok) or threw: the final transition on success,
\* the rejection of the promise of #run on failure
RunResume(i, ok) ==
    LET d == inflight[i]
        mt == Tail(microtasks)
        final == FinalStep(stateMachine, d, ok)
        t == SMTransition(stateMachine, d.toState)
        job == [id |-> d.id,
                outcome |-> IF ~ok THEN ErrorOf(d.operation)
                            ELSE IF final /\ t.threw THEN InvalidTransition
                            ELSE "ok"]
    IN  /\ inflight' = RemoveAt(inflight, i)
        /\ IF final /\ ~t.threw
           THEN /\ stateMachine' = t.sm
                /\ notified' = Notify(notified, d.toState)
                /\ heard' = Called(heard)
                /\ trace' = Append(trace, d.toState)
                /\ waiters' = Released(waiters, d.toState)
                /\ microtasks' = Append(mt \o ReleaseJobs(waiters, d.toState),
                                        ProcessQueueJob(job))
           ELSE /\ microtasks' = Append(mt, ProcessQueueJob(job))
                /\ UNCHANGED <<stateMachine, notified, heard, trace, waiters>>
        /\ ran' = Append(ran, job)
        /\ UNCHANGED <<items, processing, onTransition, handle, submitted, thrown,
                       started, settled, invoked, resets, onAt>>

\* the promise of the user callback of inflight[i] settles (at once when the
\* callback is synchronous): the resumption of #run is due
CallbackSettles(i, ok) ==
    /\ \A k \in 1..Len(microtasks) :
          ~(microtasks[k].kind = "run" /\ microtasks[k].id = inflight[i].id)
    /\ microtasks' = Append(microtasks, RunJob(inflight[i].id, ok))
    /\ UNCHANGED <<items, processing, stateMachine, onTransition, inflight,
                   handle, submitted, thrown, started, settled, invoked, ran, notified, heard,
                   trace, resets, onAt, waiters>>

CallbackSucceeds == \E i \in 1..Len(inflight) : CallbackSettles(i, TRUE)

\* a callback the user registered throws or rejects
CallbackFails ==
    \E i \in 1..Len(inflight) :
        /\ inflight[i].operation \in OperatorNames
        /\ CallbackSettles(i, FALSE)

\* the microtask that resumes #run
AwaitOperation ==
    /\ Len(microtasks) > 0
    /\ Head(microtasks).kind = "run"
    /\ \E i \in 1..Len(inflight) :
          /\ inflight[i].id = Head(microtasks).id
          /\ RunResume(i, Head(microtasks).outcome = "ok")

\* a drain loop that resolves the handle whatever the processor did
SettleResolves(h, job) ==
    IF h[job.id] # "pending" THEN h
    ELSE [h EXCEPT ![job.id] = "resolved"]

\* a failure that rejects every pending handle
SettleFailsAll(h, job) ==
    IF job.outcome = "ok"
    THEN [h EXCEPT ![job.id] = IF @ = "pending" THEN "resolved" ELSE @]
    ELSE [k \in DOMAIN h |-> IF h[k] = "pending" THEN job.outcome ELSE h[k]]

\* resolve() / reject(error) of the item #processQueue was awaiting
Settle(h, job) ==
    IF h[job.id] # "pending" THEN h
    ELSE [h EXCEPT ![job.id] =
              IF job.outcome = "ok" THEN "resolved" ELSE job.outcome]

\* a flag that is cleared after every item
ProcessingAfterItem(its) == FALSE

\* a flag that is never cleared
ProcessingAfterStuck(its) == TRUE

\* Queue.#processing once #processQueue has shifted an item off: still set
\* while the loop goes on, cleared by the finally block when it ends
ProcessingAfter(its) == Len(its) > 0

\* #processQueue resumes after `await this.#processor(item)`: it settles the
\* handle, shifts the item off and either starts the next one or goes idle
ProcessQueueResume ==
    /\ Len(microtasks) > 0
    /\ Head(microtasks).kind = "processQueue"
    /\ LET job == Head(microtasks)
           its == Shift(items)
       IN  /\ handle' = Settle(handle, job)
           /\ settled' = Append(settled, job.id)
           /\ items' = its
           /\ processing' = ProcessingAfter(its)
           /\ IF Len(its) > 0
              THEN RunBegin(its, Tail(microtasks))
              ELSE /\ microtasks' = Tail(microtasks)
                   /\ UNCHANGED <<stateMachine, notified, heard, trace, invoked, ran,
                                  inflight, started, waiters>>
    /\ UNCHANGED <<onTransition, submitted, thrown, resets, onAt>>

\* --------------------------------------------- a StateMachine used directly
\* machine.transition(toState) called by user code
MachineTransition ==
    \E toState \in MachineLabels :
        LET t == SMTransition(stateMachine, toState)
        IN  /\ IF t.threw
               THEN /\ Calls < MaxCalls
                    /\ thrown' = Append(thrown, t.error)
                    /\ UNCHANGED <<stateMachine, waiters>>
               ELSE /\ stateMachine' = t.sm
                    /\ waiters' = Released(waiters, toState)
                    /\ thrown' = thrown
            /\ UNCHANGED <<items, processing, onTransition, inflight,
                           microtasks, handle, submitted, started, settled,
                           invoked, ran, notified, heard, trace, resets, onAt>>

\* machine.until(queryState) called by user code, which holds the promise
MachineUntil ==
    \E queryState \in MachineLabels :
        /\ Calls < MaxCalls
        /\ stateMachine' = SMUntil(stateMachine, queryState)
        /\ waiters' = Append(waiters,
                [query |-> queryState, machine |-> resets, from |-> current,
                 promise |-> IF current = queryState THEN "resolved"
                             ELSE "pending",
                 outer |-> "none", saw |-> ""])
        /\ UNCHANGED <<items, processing, onTransition, inflight, microtasks,
                       handle, submitted, started, settled, invoked, ran,
                       notified, heard, trace, resets, onAt, thrown>>

\* --------------------------------------------------- a Queue used directly
\* the processor of the test 'Queue handles errors properly': what its promise
\* is settled with
TestProcessor(item) ==
    IF item = "error"
    THEN [outcome |-> "test error", value |-> "undefined"]
    ELSE [outcome |-> "ok", value |-> item]

\* #processQueue invokes the processor on the item it picked
ProcessorBegin(its) ==
    LET d == NextItem(its)
    IN  /\ started' = Append(started, d.id)
        /\ inflight' = Append(inflight, d)

\* queue.enqueue(payload) called by user code
DirectEnqueue ==
    \E payload \in Payloads :
        LET id == Len(submitted) + 1
            d == [id |-> id, payload |-> payload]
            its == Append(items, d)
        IN  /\ Calls < MaxCalls
            /\ submitted' = Append(submitted, [api |-> "enqueue", item |-> d])
            /\ items' = its
            /\ handle' = Append(handle, "pending")
            /\ IF ~processing
               THEN /\ processing' = TRUE
                    /\ ProcessorBegin(its)
               ELSE UNCHANGED <<processing, started, inflight>>
            /\ UNCHANGED <<stateMachine, onTransition, microtasks, settled,
                           invoked, ran, notified, heard, trace, resets, onAt,
                           waiters, thrown>>

\* the promise of the processor settles: the resumption of #processQueue is
\* due, with the value or the error of the processor
ProcessorSettles ==
    /\ Len(inflight) > 0
    /\ LET d == inflight[1]
           out == TestProcessor(d.payload)
       IN  /\ inflight' = Tail(inflight)
           /\ ran' = Append(ran, [id |-> d.id, outcome |-> out.outcome])
           /\ microtasks' = Append(microtasks,
                   [kind |-> "processQueue", id |-> d.id,
                    outcome |-> out.outcome, value |-> out.value])
    /\ UNCHANGED <<items, processing, stateMachine, onTransition, handle,
                   submitted, started, settled, invoked, notified, heard, trace,
                   resets, onAt, waiters, thrown>>

\* #processQueue resumes after `await this.#processor(item)`
DirectResume ==
    /\ Len(microtasks) > 0
    /\ LET job == Head(microtasks)
           its == Shift(items)
       IN  /\ handle' = Settle(handle, job)
           /\ settled' = Append(settled, job.id)
           /\ items' = its
           /\ processing' = ProcessingAfter(its)
           /\ microtasks' = Tail(microtasks)
           /\ IF Len(its) > 0
              THEN ProcessorBegin(its)
              ELSE UNCHANGED <<started, inflight>>
    /\ UNCHANGED <<stateMachine, onTransition, submitted, invoked, ran,
                   notified, heard, trace, resets, onAt, waiters, thrown>>

\* ----------------------------------------------------------- specification
Init ==
    /\ items = <<>>
    /\ processing = FALSE
    /\ stateMachine = NewStateMachine(transitions)
    /\ onTransition = "noop"
    /\ inflight = <<>>
    /\ microtasks = <<>>
    /\ handle = <<>>
    /\ submitted = <<>>
    /\ started = <<>>
    /\ settled = <<>>
    /\ invoked = <<>>
    /\ ran = <<>>
    /\ notified = <<>>
    /\ heard = <<>>
    /\ trace = <<"init">>
    /\ resets = 0
    /\ onAt = 0
    /\ waiters = <<>>
    /\ thrown = <<>>

Next ==
    \/ Open
    \/ Close
    \/ Suspend
    \/ Resume
    \/ Transition
    \/ Until
    \/ UntilResume
    \/ CallerResume
    \/ On
    \/ Reset
    \/ CallbackSucceeds
    \/ CallbackFails
    \/ AwaitOperation
    \/ ProcessQueueResume

Spec == Init /\ [][Next]_vars

\* the engine runs the job at the head of the microtask queue
RunMicrotask ==
    \/ AwaitOperation
    \/ ProcessQueueResume
    \/ UntilResume
    \/ CallerResume

\* the engine goes on running the microtask queue while it holds a job, and
\* every user callback that was invoked settles
FairSpec ==
    /\ Spec
    /\ WF_vars(RunMicrotask)
    /\ WF_vars(CallbackSucceeds \/ CallbackFails)

\* a StateMachine constructed with one of the tables, no Lifecycle around it
MachineInit ==
    /\ \E table \in MachineTables : stateMachine = NewStateMachine(table)
    /\ items = <<>>
    /\ processing = FALSE
    /\ onTransition = "noop"
    /\ inflight = <<>>
    /\ microtasks = <<>>
    /\ handle = <<>>
    /\ submitted = <<>>
    /\ started = <<>>
    /\ settled = <<>>
    /\ invoked = <<>>
    /\ ran = <<>>
    /\ notified = <<>>
    /\ heard = <<>>
    /\ trace = <<"init">>
    /\ resets = 0
    /\ onAt = 0
    /\ waiters = <<>>
    /\ thrown = <<>>

MachineNext ==
    \/ MachineTransition
    \/ MachineUntil

MachineSpec == MachineInit /\ [][MachineNext]_vars

\* a Queue constructed with the test processor, no Lifecycle around it
QueueNext ==
    \/ DirectEnqueue
    \/ ProcessorSettles
    \/ DirectResume

QueueSpec == Init /\ [][QueueNext]_vars

\* ------------------------------------------------------------------ claims
\* the resumptions of #processQueue that are due
Resumptions == SelectSeq(microtasks, LAMBDA job : job.kind = "processQueue")

Range(seq) == {seq[k] : k \in 1..Len(seq)}

Ids == 1..Len(submitted)

\* the outcomes #run had on descriptor id
OutcomesOf(id) == {ran[k].outcome : k \in {j \in 1..Len(ran) : ran[j].id = id}}

\* C1: the processor is started on the descriptors in enqueue order (ids are
\* given in enqueue order) and their handles are settled in enqueue order,
\* whenever the callbacks settle.
C1_EnqueueOrder ==
    /\ started = [k \in 1..Len(started) |-> k]
    /\ settled = [k \in 1..Len(settled) |-> k]
    /\ Len(settled) <= Len(started)
    /\ Len(started) <= Len(submitted)

\* three descriptors were pending together, two are settled and the third is
\* being processed with a fourth behind it
C1_Witness ==
    /\ settled = <<1, 2>>
    /\ started = <<1, 2, 3>>
    /\ Len(items) = 2
    /\ Len(inflight) = 1

\* C2: at most one processor invocation is in flight, at most one user
\* callback is executing and at most one resumption of the drain loop is due.
C2_OneInFlight ==
    /\ Len(inflight) <= 1
    /\ Len(inflight) + Len(Resumptions) <= 1
    /\ Len(started) - Len(ran) <= 1

\* a callback is executing while three more calls are queued behind it
C2_Witness ==
    /\ Len(inflight) = 1
    /\ Len(items) = 4

\* C3: a handle is rejected only by the failure of its own descriptor and
\* with that error, a settled handle carries the outcome of its own run, and
\* while descriptors are pending the drain loop is active with a step due.
C3_FailureIsolated ==
    /\ \A id \in Ids :
          /\ handle[id] \in Errors => OutcomesOf(id) = {handle[id]}
          /\ handle[id] = "resolved" => OutcomesOf(id) = {"ok"}
          /\ id \in Range(settled) => handle[id] # "pending"
    /\ Len(items) > 0 =>
          /\ processing
          /\ Len(inflight) + Len(Resumptions) = 1

\* a descriptor failed and a later one, whose callback ran, succeeded
C3_Witness ==
    \E i \in Ids, j \in Ids :
        /\ i < j
        /\ handle[i] \in Errors
        /\ handle[j] = "resolved"
        /\ j \in Range(invoked)

Last(seq) == seq[Len(seq)]

\* the public method that submitted descriptor id
ApiOf(id) == submitted[id].api

\* the fixed 9-state graph, as the specification draws it
GraphEdges ==
    {<<"init", "opening">>, <<"opening", "opened">>,
     <<"opened", "suspending">>, <<"opened", "closing">>,
     <<"suspending", "suspended">>, <<"suspending", "closing">>,
     <<"suspended", "resuming">>, <<"suspended", "closing">>,
     <<"resuming", "resumed">>,
     <<"resumed", "suspending">>, <<"resumed", "closing">>,
     <<"closing", "closed">>}

\* this step starts the processor on a descriptor
Begins == started' # started

\* the descriptor a Begins step starts
Begun == submitted'[Last(started')].item

\* this step is #run resuming after the callback of inflight[1] settled
Resumes == Len(inflight) = 1 /\ inflight' = <<>> /\ Len(ran') = Len(ran) + 1

\* C4: every change of the current state other than by reset() follows an
\* edge of the fixed graph, whatever labels transition() is called with and
\* however the callbacks end.
C4_GraphEdgesOnly ==
    [][(stateMachine'.current # current /\ resets' = resets)
         => <<current, stateMachine'.current>> \in GraphEdges]_vars

\* a generic transition('open', 'suspending', 'closing') took the state from
\* opened over suspending to closing
C4_Witness ==
    \E id \in Ids :
        /\ ApiOf(id) = "transition"
        /\ submitted[id].item.interimState = "suspending"
        /\ id \in Range(invoked)
        /\ handle[id] = "resolved"
        /\ current = "closing"

\* the invocations of the open callback made for open() calls
OpenInvocations == {k \in 1..Len(invoked) : ApiOf(invoked[k]) = "open"}

\* C5: without reset() the open callback is invoked at most once by open()
\* calls; when two or more open() calls are all that was submitted, the
\* callback succeeded and all are settled, the callback was invoked exactly
\* once, every call is resolved and the state is opened.
C5_OpenOnce ==
    resets = 0 =>
        /\ Cardinality(OpenInvocations) <= 1
        /\ ( /\ Len(submitted) >= 2
             /\ \A id \in Ids : ApiOf(id) = "open"
             /\ \A k \in 1..Len(ran) : ran[k].outcome = "ok"
             /\ Len(settled) = Len(submitted) )
           => /\ invoked = <<1>>
              /\ \A id \in Ids : handle[id] = "resolved"
              /\ current = "opened"

\* three open() calls and nothing else: all resolved, one invocation, opened
C5_Witness ==
    /\ resets = 0
    /\ Len(submitted) = 3
    /\ \A id \in Ids : ApiOf(id) = "open" /\ handle[id] = "resolved"
    /\ invoked = <<1>>
    /\ current = "opened"

C6_NoOpStep ==
    (Begins /\ <<current, Begun.interimState>> \notin GraphEdges)
        => /\ stateMachine' = stateMachine
           /\ invoked' = invoked
           /\ inflight' = inflight
           /\ notified' = notified
           /\ trace' = trace
           /\ Last(ran') = [id |-> Begun.id, outcome |-> "ok"]

C6_NoOpResolves ==
    \A id \in Range(settled) :
        id \notin Range(invoked) => handle[id] = "resolved"

\* C6: a descriptor that is run while the current state has no edge to its
\* interimState leaves the state machine alone, invokes no callback and
\* notifies no observer, and its call resolves (it is never rejected).
C6_NoOp == [][C6_NoOpStep]_vars /\ []C6_NoOpResolves

\* suspend() on a fresh controller has been settled: resolved, no callback,
\* no notification, state init
C6_Witness ==
    /\ Len(submitted) >= 1
    /\ ApiOf(1) = "suspend"
    /\ 1 \in Range(settled)
    /\ handle[1] = "resolved"
    /\ invoked = <<>>
    /\ onTransition = "observer"
    /\ notified = <<>>
    /\ current = "init"

\* the states the specification says close() is legal from
CloseFrom == {"opened", "suspending", "suspended", "resuming", "resumed"}

\* this step starts the processor on the descriptor of a close() call
BeginsClose == Begins /\ submitted'[Begun.id].api = "close"

\* this step is #run resuming after the close callback of a close() call
\* returned, with the state still closing
CloseReturns ==
    /\ Resumes
    /\ ApiOf(inflight[1].id) = "close"
    /\ Last(ran').outcome = "ok"
    /\ current = "closing"

\* C7 as stated: a close() descriptor that is run in any of the five states
\* opened, suspending, suspended, resuming, resumed enters closing.
C7_CloseFromFive ==
    [][(BeginsClose /\ current \in CloseFrom)
         => stateMachine'.current = "closing"]_vars

\* C7 as amended: a close() descriptor that is run in opened, suspending,
\* suspended or resumed enters closing and invokes the close callback, and
\* when the callback returns with the state still closing the state becomes
\* closed; a close() descriptor that is run in resuming changes nothing.
C7_CloseFromFour ==
    /\ [][(BeginsClose /\ current \in CloseFrom \ {"resuming"})
            => /\ stateMachine'.current = "closing"
               /\ invoked' = Append(invoked, Begun.id)]_vars
    /\ [][CloseReturns => stateMachine'.current = "closed"]_vars
    /\ [][(BeginsClose /\ current = "resuming")
            => /\ stateMachine' = stateMachine
               /\ invoked' = invoked]_vars

\* close() was run while the state was parked at suspending and reached closed
C7_Witness ==
    /\ trace = <<"init", "opening", "opened", "suspending", "closing", "closed">>
    /\ Len(submitted) = 3
    /\ ApiOf(3) = "close"
    /\ handle[3] = "resolved"

\* this step is #run resuming after the callback of inflight[1] threw
Fails == Resumes /\ Last(ran').outcome \in Errors

C8_FailStep ==
    Fails =>
        /\ stateMachine' = stateMachine
        /\ trace' = trace
        /\ notified' = notified
        /\ Last(ran') = [id |-> inflight[1].id,
                         outcome |-> ErrorOf(inflight[1].operation)]
        /\ resets = 0 => current = inflight[1].interimState
        /\ (onTransition = "observer" /\ onAt < inflight[1].id)
              => Last(notified') = inflight[1].interimState

C8_Delivered ==
    \A id \in Ids :
        /\ (id \in Range(settled) /\ OutcomesOf(id) \cap Errors # {})
              => OutcomesOf(id) = {handle[id]}
        /\ handle[id] \in Errors
              => /\ handle[id] = ErrorOf(submitted[id].item.operation)
                 /\ OutcomesOf(id) = {handle[id]}
                 /\ id \in Range(invoked)

\* C8: when the callback of an operation fails, #run makes no transition and
\* no notification (the state stays at interimState, the observer's last
\* notification is the interim one), and the error is the rejection of that
\* call's handle and of no other handle.
C8_FailureParks == [][C8_FailStep]_vars /\ []C8_Delivered

\* an observed suspend() failed: its handle carries the error of the suspend
\* callback, the state is suspending, the last notification is suspending
C8_Witness ==
    \E id \in Ids :
        /\ ApiOf(id) = "suspend"
        /\ handle[id] = ErrorOf("suspend")
        /\ onTransition = "observer"
        /\ onAt = 0
        /\ notified = <<"opening", "opened", "suspending">>
        /\ current = "suspending"
        /\ \A other \in Ids \ {id} : handle[other] = "resolved"

\* open() descriptors whose callback failed
FailedOpens ==
    {id \in Ids : ApiOf(id) = "open" /\ OutcomesOf(id) \cap Errors # {}}

C9_Parked ==
    (resets = 0 /\ FailedOpens # {}) =>
        /\ current = "opening"
        /\ \A i \in FailedOpens, j \in Ids :
              (j > i /\ ApiOf(j) = "open") =>
                  /\ j \notin Range(invoked)
                  /\ j \in Range(settled) => handle[j] = "resolved"

C9_ResetStep ==
    (resets' # resets /\ ~processing) =>
        /\ stateMachine'.current = "init"
        /\ ~processing'

C9_OpenStep ==
    ( /\ Len(submitted') = Len(submitted) + 1
      /\ Last(submitted').api = "open"
      /\ resets > 0
      /\ ~processing
      /\ current = "init" )
    => /\ invoked' = Append(invoked, Len(submitted'))
       /\ stateMachine'.current = "opening"

\* C9: once an open() has failed, without reset() the state stays opening and
\* no later open() invokes the callback, each resolving; reset() with the
\* queue idle leaves the state init and the queue idle, and an open() called
\* in that situation invokes the open callback again.
C9_RetryNeedsReset ==
    /\ []C9_Parked
    /\ [][C9_ResetStep]_vars
    /\ [][C9_OpenStep]_vars

\* open() failed, a second open() was a no-op, reset(), a third open()
\* invoked the callback again
C9_Witness ==
    /\ Len(submitted) = 3
    /\ \A id \in Ids : ApiOf(id) = "open"
    /\ handle[1] = ErrorOf("open")
    /\ handle[2] = "resolved"
    /\ resets = 1
    /\ invoked = <<1, 3>>

C10_BeginStep ==
    Begins =>
        /\ Last(started') = Len(started) + 1
        /\ inflight = <<>>
        /\ \A id \in Range(started) : OutcomesOf(id) # {}
        /\ \A id \in Range(started) : id \in Range(settled')

C10_ChangeStep ==
    ((trace' # trace \/ notified' # notified \/ invoked' # invoked)
        /\ resets' = resets)
    => \/ Begins
       \/ Resumes /\ inflight[1].id = Last(started)

C10_OpenClose ==
    ( /\ Len(submitted) = 2
      /\ ApiOf(1) = "open"
      /\ ApiOf(2) = "close"
      /\ resets = 0
      /\ onTransition = "observer"
      /\ onAt = 0
      /\ handle = <<"resolved", "resolved">> )
    => /\ notified = <<"opening", "opened", "closing", "closed">>
       /\ current = "closed"

\* C10: the processor is started on a descriptor only when it was started on
\* all earlier ones, their runs are complete and their handles settled, and
\* no callback is executing; a transition, notification or callback
\* invocation is made only for the descriptor started last; so an observed
\* open() followed by close(), both resolved, gives the record
\* [opening, opened, closing, closed] and the state closed.
C10_SubmissionOrder ==
    /\ [][C10_BeginStep]_vars
    /\ [][C10_ChangeStep]_vars
    /\ []C10_OpenClose

\* close() was called while the open callback was executing and both are
\* resolved with the full record
C10_Witness ==
    /\ Len(submitted) = 2
    /\ ApiOf(1) = "open"
    /\ ApiOf(2) = "close"
    /\ onAt = 0
    /\ handle = <<"resolved", "resolved">>
    /\ notified = <<"opening", "opened", "closing", "closed">>
    /\ current = "closed"

\* the calls of the full lifecycle, in order
LifecycleCalls == <<"open", "suspend", "resume", "close">>

\* the states the full lifecycle goes through
FullPath ==
    <<"init", "opening", "opened", "suspending", "suspended", "resuming",
      "resumed", "closing", "closed">>

\* the calls made so far are the first calls of the full lifecycle on a
\* controller that was never reset, and no callback failed
InFullLifecycle ==
    /\ resets = 0
    /\ Len(submitted) <= Len(LifecycleCalls)
    /\ \A id \in Ids : ApiOf(id) = LifecycleCalls[id]
    /\ \A k \in 1..Len(ran) : ran[k].outcome = "ok"

\* this step settles the handle of the call made last, nothing is queued
\* behind it
SettlesLast ==
    /\ Len(settled') = Len(settled) + 1
    /\ Last(settled') = Len(submitted')
    /\ items' = <<>>

C11_ResolveStep ==
    (SettlesLast /\ InFullLifecycle') =>
        LET id == Last(settled')
        IN  /\ handle'[id] = "resolved"
            /\ stateMachine'.current = submitted'[id].item.toState
            /\ trace' = SubSeq(FullPath, 1, 2 * id + 1)
            /\ invoked' = [k \in 1..id |-> k]

C11_Path ==
    /\ (Len(submitted) = 0 /\ resets = 0) => current = "init"
    /\ InFullLifecycle =>
          /\ Len(trace) <= Len(FullPath)
          /\ trace = SubSeq(FullPath, 1, Len(trace))
          /\ invoked = [k \in 1..Len(invoked) |-> k]

\* C11: a fresh controller is in init; open(), suspend(), resume(), close()
\* with succeeding callbacks drive the state along init, opening, opened,
\* suspending, suspended, resuming, resumed, closing, closed; when the handle
\* of the call made last is resolved the state is that operation's final
\* state and each callback so far was invoked exactly once.
C11_FullLifecycle == [][C11_ResolveStep]_vars /\ []C11_Path

\* all four calls are resolved, the state went along the whole path
C11_Witness ==
    /\ InFullLifecycle
    /\ handle = <<"resolved", "resolved", "resolved", "resolved">>
    /\ trace = FullPath
    /\ invoked = <<1, 2, 3, 4>>
    /\ current = "closed"

\* the states entered by transitions: the trace without the init states
Entered == SelectSeq(trace, LAMBDA s : s # "init")

C12_Record ==
    (onTransition = "observer" /\ onAt = 0) => notified = Entered

C12_NotifyStep ==
    (onTransition = "observer" /\ onTransition' = "observer") =>
        /\ (trace' # trace /\ resets' = resets)
              => /\ Len(trace') = Len(trace) + 1
                 /\ notified' = Append(notified, Last(trace'))
        /\ (trace' = trace \/ resets' # resets) => notified' = notified

\* C12: an observer installed before any operation is called is notified
\* exactly once of every transition made, in the step that makes it and in
\* order, so its record is the sequence of the states entered; a run that
\* makes no transition notifies nothing.
C12_ObserverRecord == [][C12_NotifyStep]_vars /\ []C12_Record

\* an observed open() ran, then a resume() that was a no-op is settled: the
\* record is opening, opened
C12_Witness ==
    /\ onTransition = "observer"
    /\ onAt = 0
    /\ Len(submitted) = 2
    /\ ApiOf(1) = "open"
    /\ ApiOf(2) = "resume"
    /\ settled = <<1, 2>>
    /\ invoked = <<1>>
    /\ notified = <<"opening", "opened">>

\* this step is a call of open, suspend, resume or close
CallsOperation ==
    /\ Len(submitted') = Len(submitted) + 1
    /\ Last(submitted').api \in OperatorNames

C13_IdleStep ==
    ( /\ CallsOperation
      /\ ~processing
      /\ <<current, Last(submitted').item.interimState>> \in GraphEdges )
    => stateMachine'.current = Last(submitted').item.interimState

C13_BusyStep ==
    (CallsOperation /\ Len(inflight) = 1) =>
        /\ stateMachine' = stateMachine
        /\ inflight' = inflight

C13_InFlight ==
    (resets = 0 /\ Len(inflight) = 1) => current = inflight[1].interimState

\* C13: a call of open, suspend, resume or close made while the queue is idle
\* and the current state has an edge to the interim state leaves the state at
\* the interim state when it returns; a call made while a callback is
\* executing does not change the state, which is the interim state of the
\* operation in flight until that operation completes.
C13_SynchronousStart ==
    /\ [][C13_IdleStep]_vars
    /\ [][C13_BusyStep]_vars
    /\ []C13_InFlight

\* suspend() was called idle in opened and close() while it was in flight:
\* the state is suspending
C13_Witness ==
    /\ Len(submitted) = 3
    /\ ApiOf(2) = "suspend"
    /\ ApiOf(3) = "close"
    /\ settled = <<1>>
    /\ started = <<1, 2>>
    /\ Len(inflight) = 1
    /\ Len(items) = 2
    /\ current = "suspending"

\* open() then suspend() is all that was called on a controller that was
\* never reset, and no callback failed
OpenThenSuspend ==
    /\ resets = 0
    /\ Len(submitted) = 2
    /\ ApiOf(1) = "open"
    /\ ApiOf(2) = "suspend"
    /\ \A k \in 1..Len(ran) : ran[k].outcome = "ok"

\* this step resumes the caller of until() call w, which had to wait
ResumesWaiter(w) ==
    /\ waiters[w].saw = ""
    /\ waiters'[w].saw # ""
    /\ waiters[w].from # waiters[w].query

\* C14: with open() and suspend() called and succeeding, a caller that
\* awaited until('opened') before the state was opened resumes with the state
\* suspending (the drain loop has started suspend by then), and a caller
\* that awaited until('suspended') resumes with the state suspended.
C14_WaiterSees ==
    [][\A w \in 1..Len(waiters) :
         (ResumesWaiter(w) /\ OpenThenSuspend) =>
             /\ waiters[w].query = "opened"
                   => waiters'[w].saw = "suspending" /\ current = "suspending"
             /\ waiters[w].query = "suspended"
                   => waiters'[w].saw = "suspended" /\ current = "suspended"]_vars

\* until('opened') was awaited while open was in flight and resumed in
\* suspending, then until('suspended') was awaited and resumed in suspended
C14_Witness ==
    /\ OpenThenSuspend
    /\ handle = <<"resolved", "resolved">>
    /\ Len(waiters) = 2
    /\ waiters[1].query = "opened"
    /\ waiters[1].from = "opening"
    /\ waiters[1].saw = "suspending"
    /\ waiters[2].query = "suspended"
    /\ waiters[2].from = "suspending"
    /\ waiters[2].saw = "suspended"

\* the successors of the current state in the table of the machine
Successors ==
    IF current \in DOMAIN stateMachine.transitions
    THEN stateMachine.transitions[current]
    ELSE {}

C15_Outcome ==
    \A toState \in MachineLabels :
        LET t == SMTransition(stateMachine, toState)
        IN  /\ Allows(stateMachine, toState) <=> toState \in Successors
            /\ toState \notin Successors
                  => /\ t.threw
                     /\ t.error = "Invalid transition from " \o current
                                       \o " to " \o toState
                     /\ t.sm = stateMachine
            /\ toState \in Successors
                  => /\ ~t.threw
                     /\ t.sm.current = toState

C15_ThrowStep ==
    thrown' # thrown =>
        /\ stateMachine' = stateMachine
        /\ waiters' = waiters
        /\ \E toState \in MachineLabels \ Successors :
              thrown' = Append(thrown, InvalidTransitionFrom(current, toState))

C15_MoveStep ==
    stateMachine'.current # current =>
        /\ stateMachine'.current \in Successors
        /\ thrown' = thrown

\* C15: on a StateMachine used directly, transition(T) with T not a successor
\* of the current state (also when the current state has no entry in the
\* table) throws `Invalid transition from <current> to T` and leaves the
\* current state and the waiters as they were; the state only ever moves to
\* a successor; allows(T) is true exactly for the successors.
C15_InvalidTransition ==
    /\ []C15_Outcome
    /\ [][C15_ThrowStep]_vars
    /\ [][C15_MoveStep]_vars

\* in stopped, which has no entry in the table, transition('init') threw while
\* an until('init') was pending, and it still is
C15_Witness ==
    /\ current = "stopped"
    /\ current \notin DOMAIN stateMachine.transitions
    /\ Len(thrown) >= 1
    /\ Last(thrown) = "Invalid transition from stopped to init"
    /\ Len(waiters) = 1
    /\ waiters[1].query = "init"
    /\ waiters[1].promise = "pending"
    /\ stateMachine.resolvers = {"init"}

\* the until() calls on the current machine whose promise is pending
Pending == {w \in 1..Len(waiters) : /\ waiters[w].promise = "pending"
                                    /\ waiters[w].machine = resets}

C16_ReleaseStep ==
    \A w \in Pending :
        IF stateMachine'.current # current
              /\ stateMachine'.current = waiters[w].query
        THEN waiters'[w].promise = "resolved"
        ELSE waiters'[w].promise = "pending"

C16_Slot ==
    /\ \A w \in Pending : waiters[w].query \in stateMachine.resolvers
    /\ \A s \in stateMachine.resolvers : \E w \in Pending : waiters[w].query = s

\* C16: a transition that lands on S resolves every until(S) promise that is
\* pending at that moment, together (the calls share the promise of the slot
\* of S); a pending until(S) is resolved by no other step; so an until(S)
\* called after the slot was cleared stays pending until the state enters S
\* again.
C16_SharedWaiter == [][C16_ReleaseStep]_vars /\ []C16_Slot

\* two until('error') calls made in init were resolved together when the
\* state entered error; an until('init') made in error was resolved by the
\* return to init; an until('error') made after that is pending in init
C16_Witness ==
    /\ Len(waiters) = 4
    /\ waiters[1].query = "error" /\ waiters[1].from = "init"
    /\ waiters[2].query = "error" /\ waiters[2].from = "init"
    /\ waiters[3].query = "init" /\ waiters[3].from = "error"
    /\ waiters[4].query = "error" /\ waiters[4].from = "init"
    /\ \A w \in 1..3 : waiters[w].promise = "resolved"
    /\ waiters[4].promise = "pending"
    /\ current = "init"
    /\ stateMachine.resolvers = {"error"}

C17_NoWaiterForCurrent == current \notin stateMachine.resolvers

C17_Immediate ==
    \A w \in 1..Len(waiters) :
        waiters[w].from = waiters[w].query => waiters[w].promise = "resolved"

C17_UntilStep ==
    (Len(waiters') = Len(waiters) + 1 /\ Last(waiters').query = current) =>
        /\ stateMachine' = stateMachine
        /\ Last(waiters').promise = "resolved"

C17_LandStep ==
    stateMachine'.current # current =>
        stateMachine'.current \notin stateMachine'.resolvers

\* C17: until(S) called while the state is S gives a resolved promise and
\* registers no waiter; a transition to S clears the slot of S; in every
\* reachable state the machine has no waiter slot for its current state.
C17_NoSlotForCurrent ==
    /\ []C17_NoWaiterForCurrent
    /\ []C17_Immediate
    /\ [][C17_UntilStep]_vars
    /\ [][C17_LandStep]_vars

\* until('opened') was called before and after the state became opened: the
\* slot of opened was cleared by the transition, the second call got a
\* resolved promise and registered nothing
C17_Witness ==
    /\ current = "opened"
    /\ Len(waiters) = 2
    /\ waiters[1].query = "opened" /\ waiters[1].from = "opening"
    /\ waiters[2].query = "opened" /\ waiters[2].from = "opened"
    /\ waiters[1].promise = "resolved"
    /\ waiters[2].promise = "resolved"
    /\ stateMachine.resolvers = {}

\* C18: Lifecycle.transition fails with `Unknown operator name` for every
\* operator name that is not open, close, suspend or resume: no descriptor is
\* enqueued for such a name, no callback is invoked for it and the state is
\* not changed by it.
C18_UnknownRefused ==
    /\ \A id \in Ids : submitted[id].item.operation \in OperatorNames
    /\ \A k \in 1..Len(thrown) :
          \E operator \in TransitionOperators \ OperatorNames :
              thrown[k] = UnknownOperator(operator)

\* this step starts the processor on the descriptor of a transition() call
BeginsGeneric == Begins /\ submitted'[Begun.id].api = "transition"

\* this step is #run resuming after the callback of a transition() call
\* returned
GenericReturns ==
    /\ Resumes
    /\ ApiOf(inflight[1].id) = "transition"
    /\ Head(microtasks).outcome = "ok"

\* C19 as stated: a transition() call whose operator was found fails with
\* `Invalid transition` when its descriptor is run while the current state
\* has no edge to the interim state, or when its callback returned and the
\* interim state has no edge to the target state.
C19_GenericRaises ==
    /\ [][(BeginsGeneric /\ <<current, Begun.interimState>> \notin GraphEdges)
            => Last(ran').outcome = InvalidTransition]_vars
    /\ [][(GenericReturns /\ <<current, inflight[1].toState>> \notin GraphEdges)
            => Last(ran').outcome = InvalidTransition]_vars

C19_NeverInvalid ==
    /\ \A id \in Ids : handle[id] # InvalidTransition
    /\ \A k \in 1..Len(ran) : ran[k].outcome # InvalidTransition
    /\ \A k \in 1..Len(thrown) :
          thrown[k] \in {UnknownOperator(operator) :
                             operator \in TransitionOperators}

C19_BlockedStep ==
    (BeginsGeneric /\ <<current, Begun.interimState>> \notin GraphEdges)
    => /\ stateMachine' = stateMachine
       /\ invoked' = invoked
       /\ Last(ran') = [id |-> Begun.id, outcome |-> "ok"]

C19_SkipStep ==
    (GenericReturns /\ <<current, inflight[1].toState>> \notin GraphEdges)
    => /\ stateMachine' = stateMachine
       /\ notified' = notified
       /\ Last(ran') = [id |-> inflight[1].id, outcome |-> "ok"]

\* C19 as amended: no call of transition(), open(), suspend(), resume() or
\* close() fails with `Invalid transition`; a transition() descriptor that is
\* run while the current state has no edge to its interim state is a no-op
\* whose run returns, and when its callback returned and the state has no
\* edge to its target state the final transition is skipped, the state stays
\* where it is and the run returns.
C19_GenericNoOps ==
    /\ []C19_NeverInvalid
    /\ [][C19_BlockedStep]_vars
    /\ [][C19_SkipStep]_vars

\* transition('open', 'opening', 'closing') on a fresh controller is resolved
\* with the state left at opening, and transition('open', 'suspending',
\* 'closing') after it resolved without invoking the callback
C19_Witness ==
    /\ Len(submitted) = 2
    /\ ApiOf(1) = "transition" /\ ApiOf(2) = "transition"
    /\ submitted[1].item.operation = "open"
    /\ submitted[1].item.interimState = "opening"
    /\ submitted[2].item.interimState = "suspending"
    /\ handle = <<"resolved", "resolved">>
    /\ invoked = <<1>>
    /\ resets = 0
    /\ current = "opening"

\* the payload enqueue call id was made with
PayloadOf(id) == submitted[id].item.payload

\* C20 as stated: the handle of enqueue(payload) is settled with the outcome
\* of the processor for that payload: resolved with the value the processor
\* produced, rejected with the error it threw.
C20_ProcessorValue ==
    \A id \in Range(settled) :
        LET out == TestProcessor(PayloadOf(id))
        IN  handle[id] = IF out.outcome = "ok" THEN out.value ELSE out.outcome

\* C20 as amended: the handle of enqueue(payload) is settled when the
\* processor is done with that payload and is pending until then: rejected
\* with the error of the processor when it threw, and otherwise resolved by
\* resolve() without a value, whatever value the processor produced.
C20_ProcessorOutcome ==
    \A id \in Ids :
        LET out == TestProcessor(PayloadOf(id))
        IN  IF id \in Range(settled)
            THEN handle[id] = IF out.outcome = "ok" THEN "resolved"
                              ELSE out.outcome
            ELSE handle[id] = "pending"

\* success, error, continue were enqueued: resolved, rejected with the
\* processor's error, resolved
C20_Witness ==
    /\ Len(submitted) = 3
    /\ PayloadOf(1) = "success"
    /\ PayloadOf(2) = "error"
    /\ PayloadOf(3) = "continue"
    /\ settled = <<1, 2, 3>>
    /\ handle = <<"resolved", "test error", "resolved">>

\* this step is a call of reset()
Resets == resets' = resets + 1

\* C21: reset() called while no callback is executing leaves the state init,
\* whatever the state was (closed and the parked interim states included),
\* with a machine that has no waiter slot, and leaves the queue (its items,
\* its flag, the handles, the resumptions that are due) and the installed
\* observer as they were; the operation table is never changed.
C21_ResetFrame ==
    [][(Resets /\ inflight = <<>>) =>
          /\ stateMachine' = NewStateMachine(transitions)
          /\ stateMachine'.current = "init"
          /\ items' = items
          /\ processing' = processing
          /\ handle' = handle
          /\ microtasks' = microtasks
          /\ inflight' = inflight
          /\ onTransition' = onTransition
          /\ notified' = notified
          /\ invoked' = invoked]_vars

\* an observed controller was opened and closed, then reset: init again, the
\* observer still installed
C21_Witness ==
    /\ trace = <<"init", "opening", "opened", "closing", "closed", "init">>
    /\ resets = 1
    /\ current = "init"
    /\ onTransition = "observer"
    /\ handle = <<"resolved", "resolved">>
    /\ ~processing

C22_NotifyStep ==
    notified' # notified =>
        /\ onTransition # "noop"
        /\ onTransition' = onTransition
        /\ Len(notified') = Len(notified) + 1
        /\ heard' = Append(heard, onTransition)

C22_OnStep ==
    onTransition' # onTransition =>
        /\ onTransition' # "noop"
        /\ notified' = notified
        /\ heard' = heard

C22_Replaced ==
    /\ Len(heard) = Len(notified)
    /\ \A i, j \in 1..Len(heard) :
          (i < j /\ heard[i] = "observer2") => heard[j] = "observer2"
    /\ onTransition = "observer" => \A i \in 1..Len(heard) : heard[i] = "observer"

\* C22: every notification is made to one callback, the one the latest on()
\* call installed; on() itself notifies nobody; so once a second on() was
\* made the callback registered first is never called again and every later
\* transition is notified to the second one.
C22_SoleObserver ==
    /\ [][C22_NotifyStep]_vars
    /\ [][C22_OnStep]_vars
    /\ []C22_Replaced

\* on(first), open(), on(second) while the open callback was executing: the
\* first observer heard opening, the second heard opened
C22_Witness ==
    /\ onTransition = "observer2"
    /\ Len(submitted) = 1
    /\ ApiOf(1) = "open"
    /\ notified = <<"opening", "opened">>
    /\ heard = <<"observer", "observer2">>
    /\ handle = <<"resolved">>

\* this step is #run resuming after the callback of inflight[1] returned
Returns == Resumes /\ Head(microtasks).outcome = "ok"

C23_ReturnStep ==
    Returns =>
        LET d == inflight[1]
        IN  /\ Last(ran') = [id |-> d.id, outcome |-> "ok"]
            /\ IF /\ current = d.interimState
                  /\ <<d.interimState, d.toState>> \in GraphEdges
               THEN /\ stateMachine'.current = d.toState
                    /\ trace' = Append(trace, d.toState)
                    /\ notified' = IF onTransition = "noop" THEN notified
                                   ELSE Append(notified, d.toState)
               ELSE /\ stateMachine' = stateMachine
                    /\ trace' = trace
                    /\ notified' = notified

C23_Resolves ==
    \A id \in Range(settled) :
        OutcomesOf(id) = {"ok"} => handle[id] = "resolved"

\* C23: when the callback of a descriptor returned, #run makes the final
\* transition and notifies the observer of it exactly when the state is
\* still interimState and the graph has the edge interimState -> toState;
\* otherwise the state, the trace and the record are left as they are; in
\* both cases the run returns and the call resolves.
C23_FinalIff == [][C23_ReturnStep]_vars /\ []C23_Resolves

\* an observed transition('open', 'opening', 'closing') on a fresh controller
\* is resolved: the callback ran, the state is left at opening, the observer
\* heard opening only
C23_Witness ==
    /\ Len(submitted) = 1
    /\ ApiOf(1) = "transition"
    /\ submitted[1].item.operation = "open"
    /\ submitted[1].item.interimState = "opening"
    /\ submitted[1].item.toState = "closing"
    /\ handle = <<"resolved">>
    /\ invoked = <<1>>
    /\ onAt = 0
    /\ notified = <<"opening">>
    /\ heard = <<"observer">>
    /\ resets = 0
    /\ current = "opening"

\* the number of times the processor was started on descriptor id
StartsOf(id) == Cardinality({k \in 1..Len(started) : started[k] = id})

\* the number of times the drain loop settled the handle of descriptor id
SettlesOf(id) == Cardinality({k \in 1..Len(settled) : settled[k] = id})

\* the number of runs of #run on descriptor id that are complete
RunsOf(id) == Cardinality({k \in 1..Len(ran) : ran[k].id = id})

C24_Once ==
    \A id \in Ids :
        /\ StartsOf(id) <= 1
        /\ RunsOf(id) <= StartsOf(id)
        /\ SettlesOf(id) <= RunsOf(id)
        /\ handle[id] = "pending" <=> SettlesOf(id) = 0
        /\ SettlesOf(id) = 1 =>
              /\ OutcomesOf(id) = {"ok"} => handle[id] = "resolved"
              /\ OutcomesOf(id) # {"ok"} => OutcomesOf(id) = {handle[id]}

AllSettled ==
    /\ \A id \in Ids : handle[id] # "pending" /\ StartsOf(id) = 1
    /\ items = <<>>
    /\ ~processing

\* C24: the processor is started at most once on every enqueued descriptor
\* and its handle is settled at most once, with the outcome of its own run;
\* when every job of the microtask queue is run and every invoked callback
\* settles, there comes a point from which on every handle is settled, every
\* descriptor was processed and the queue is idle.
C24_Settles == []C24_Once /\ <>[]AllSettled

\* four calls, one of them failed, all settled and the queue idle
C24_Witness ==
    /\ Len(submitted) = 4
    /\ AllSettled
    /\ started = <<1, 2, 3, 4>>
    /\ \E id \in Ids : handle[id] \in Errors
    /\ \E id \in Ids : handle[id] = "resolved" /\ id \in Range(invoked)

\* this step is a call that enqueues a descriptor
Enqueues == Len(submitted') = Len(submitted) + 1

C25_ReentrantStep ==
    (Enqueues /\ Len(inflight) = 1) =>
        /\ processing /\ processing'
        /\ items' = Append(items, Last(submitted').item)
        /\ Len(items') >= 2
        /\ started' = started
        /\ invoked' = invoked
        /\ inflight' = inflight
        /\ microtasks' = microtasks
        /\ stateMachine' = stateMachine
        /\ handle' = Append(handle, "pending")

C25_LaterStep ==
    Begins =>
        /\ inflight = <<>>
        /\ \A id \in 1..(Last(started') - 1) :
              id \in Range(settled') /\ handle'[id] # "pending"

C25_OneLoop ==
    /\ Len(inflight) <= 1
    /\ Len(started) - Len(settled) <= 1
    /\ \A k \in 1..Len(items) : items[k].id = Len(settled) + k

\* C25: a call that enqueues while a callback is executing (as a callback
\* that calls close() does) appends its descriptor behind the pending ones
\* and starts nothing: the flag stays set, no processor is started, the state
\* machine is untouched; the one drain loop starts the processor on a
\* descriptor only when no callback is executing and every earlier
\* descriptor is settled.
C25_Reentrant ==
    /\ [][C25_ReentrantStep]_vars
    /\ [][C25_LaterStep]_vars
    /\ []C25_OneLoop

\* close() was called while the open callback, the first thing ever started,
\* is executing: it is queued behind open and nothing else was started
C25_Witness ==
    /\ Len(submitted) = 2
    /\ ApiOf(1) = "open"
    /\ ApiOf(2) = "close"
    /\ Len(inflight) = 1
    /\ inflight[1].id = 1
    /\ Len(items) = 2
    /\ items[2].id = 2
    /\ started = <<1>>
    /\ processing
    /\ current = "opening"

\* the drain loop is at work on the first pending item: its callback is
\* executing, or a resumption for it is in the microtask queue
LoopActive ==
    /\ processing
    /\ Last(started) = items[1].id
    /\ \/ Len(inflight) = 1 /\ inflight[1].id = items[1].id
       \/ \E k \in 1..Len(microtasks) :
             /\ microtasks[k].kind \in {"run", "processQueue"}
             /\ microtasks[k].id = items[1].id

C26_Draining ==
    /\ Len(items) > 0 => LoopActive
    /\ \A id \in 1..Len(submitted) :
          id \in Range(settled) \/ \E k \in 1..Len(items) : items[k].id = id

C26_ClearStep == (processing /\ ~processing') => items' = <<>>

C26_EnqueueStep ==
    Enqueues =>
        /\ processing'
        /\ items'[Len(items')].id = Len(submitted')
        /\ IF processing
           THEN started' = started /\ Len(items) > 0
           ELSE /\ items = <<>>
                /\ started' = Append(started, Len(submitted'))
                /\ Range(started) \subseteq Range(settled)

\* C26: while an item is pending the draining flag is set and the loop is at
\* work on the first one; the flag is cleared only with the sequence empty;
\* an enqueue either joins the sequence of the active loop or, when idle
\* (also right after the last item was settled), starts a fresh loop on its
\* own item; every submitted item is pending or settled.
C26_NeverStranded ==
    /\ []C26_Draining
    /\ [][C26_ClearStep]_vars
    /\ [][C26_EnqueueStep]_vars

\* an item submitted second was started with the first one already settled
\* and is the only one pending
C26_Witness ==
    /\ started = <<1, 2>>
    /\ settled = <<1>>
    /\ Len(items) = 1
    /\ items[1].id = 2
    /\ processing
    /\ Len(inflight) = 1

\* this step is part of a runner execution: the drain loop starts #run on a
\* descriptor, or #run resumes after its callback
InRunner == Begins \/ Resumes

\* this step is an until() call
CallsUntil == Len(waiters') = Len(waiters) + 1

\* C27 as stated: a step outside a runner execution (reset() apart) changes
\* neither the current state nor the waiter table of the state machine.
C27_RunnerOnly ==
    [][(~InRunner /\ ~Resets) =>
          /\ stateMachine'.current = current
          /\ stateMachine'.resolvers = stateMachine.resolvers]_vars

C27_OutsideStep ==
    (~InRunner /\ ~Resets) =>
        /\ stateMachine'.current = current
        /\ stateMachine'.resolvers # stateMachine.resolvers =>
              /\ CallsUntil
              /\ Last(waiters').query # current
              /\ Last(waiters').promise = "pending"
              /\ stateMachine'.resolvers =
                    stateMachine.resolvers \cup {Last(waiters').query}
        /\ ~CallsUntil => stateMachine' = stateMachine

C27_RunnerStep ==
    InRunner =>
        /\ stateMachine'.resolvers \subseteq stateMachine.resolvers
        /\ stateMachine.resolvers \ stateMachine'.resolvers
              \subseteq {stateMachine'.current}
        /\ stateMachine'.current # current =>
              stateMachine'.current \notin stateMachine'.resolvers

C27_ResetStep == Resets => stateMachine' = NewStateMachine(transitions)

\* C27 as amended: the current state changes only within a runner execution
\* or by reset(); on(), the enqueueing part of a call and the resumptions of
\* until() leave the state machine as it is; until() called with a state
\* other than the current one adds that state to the waiter table, outside
\* any runner; a runner only removes the entry of the state it enters;
\* reset() replaces the machine by a fresh one with an empty table.
C27_WhoMutates ==
    /\ [][C27_OutsideStep]_vars
    /\ [][C27_RunnerStep]_vars
    /\ [][C27_ResetStep]_vars

\* until('opened') was called with the open callback executing: the waiter
\* table has the entry although no runner step was taken since open started
C27_Witness ==
    /\ started = <<1>>
    /\ Len(inflight) = 1
    /\ current = "opening"
    /\ Len(waiters) = 1
    /\ waiters[1].from = "opening"
    /\ waiters[1].query = "opened"
    /\ stateMachine.resolvers = {"opened"}
    /\ resets = 0

\* the states whose only outgoing edge is the one #run takes after success
ParkingStates == {"opening", "resuming", "closing"}

\* no callback is executing and the state is one of the parking states: the
\* callback that entered it failed, or its final transition was skipped
Parked == current \in ParkingStates /\ inflight = <<>>

C28_ParkedStep ==
    (Parked /\ ~Resets) =>
        /\ stateMachine'.current = current
        /\ invoked' = invoked
        /\ inflight' = <<>>
        /\ notified' = notified
        /\ trace' = trace
        /\ Begins =>
              /\ Last(ran') = [id |-> Begun.id, outcome |-> "ok"]
              /\ Last(microtasks') =
                    ProcessQueueJob([id |-> Begun.id, outcome |-> "ok"])

C28_NoOps ==
    \A id \in Ids :
        (handle[id] # "pending" /\ id \notin Range(invoked))
            => handle[id] = "resolved"

\* C28: with the state parked at opening, resuming or closing (no callback
\* executing), every step other than reset() leaves the state where it is,
\* invokes no callback and notifies nobody; a descriptor the drain loop
\* starts then is run as a no-op that returns normally; a call whose callback
\* was never invoked resolves.
C28_ParkedStays ==
    /\ [][C28_ParkedStep]_vars
    /\ []C28_NoOps

\* open() failed and parked the state at opening; close(), suspend() and
\* resume() were then processed as no-ops and resolved
C28_Witness ==
    /\ Len(submitted) = 4
    /\ ApiOf(1) = "open"
    /\ {ApiOf(2), ApiOf(3), ApiOf(4)} = {"close", "suspend", "resume"}
    /\ handle = <<ErrorOf("open"), "resolved", "resolved", "resolved">>
    /\ invoked = <<1>>
    /\ current = "opening"
    /\ resets = 0
    /\ ~processing

C29_ClosedStep ==
    (current = "closed" /\ ~Resets) =>
        /\ stateMachine'.current = "closed"
        /\ invoked' = invoked
        /\ inflight' = <<>>
        /\ notified' = notified
        /\ heard' = heard
        /\ trace' = trace
        /\ Begins => Last(ran') = [id |-> Begun.id, outcome |-> "ok"]

\* C29: with the state closed no callback is executing, and every step
\* other than reset() (the four methods, transition() with any labels, the
\* drain loop going through pending descriptors) leaves the state closed,
\* invokes no callback and notifies no observer; the descriptors started then
\* are run as no-ops.
C29_ClosedAbsorbing ==
    /\ [](current = "closed" => inflight = <<>>)
    /\ [][C29_ClosedStep]_vars

\* open() and close() closed the resource with the observer listening; the
\* transition() call made after them was a no-op and resolved
C29_Witness ==
    /\ Len(submitted) = 3
    /\ ApiOf(1) = "open"
    /\ ApiOf(2) = "close"
    /\ ApiOf(3) = "transition"
    /\ handle = <<"resolved", "resolved", "resolved">>
    /\ invoked = <<1, 2>>
    /\ onTransition = "observer"
    /\ notified = <<"opening", "opened", "closing", "closed">>
    /\ current = "closed"
    /\ resets = 0

\* this step invokes a user callback
Invokes == Len(invoked') = Len(invoked) + 1

C30_During ==
    resets = 0 =>
        \A k \in 1..Len(inflight) :
            /\ current = inflight[k].interimState
            /\ Last(trace) = inflight[k].interimState
            /\ Last(invoked) = inflight[k].id
            /\ Len(items) > 0
            /\ items[1] = inflight[k]

C30_InvokeStep ==
    Invokes =>
        /\ Begins
        /\ Last(invoked') = Begun.id
        /\ <<current, Begun.interimState>> \in GraphEdges
        /\ stateMachine'.current = Begun.interimState
        /\ inflight' = <<Begun>>

C30_MeanwhileStep ==
    (Len(inflight) = 1 /\ ~Resets /\ ~Resumes) =>
        /\ inflight' = inflight
        /\ stateMachine'.current = current
        /\ trace' = trace

\* C30: a callback is invoked by the step that enters the interimState of its
\* descriptor; until #run resumes after the callback, no step other than
\* reset() changes the state, whatever is called meanwhile; so on a
\* controller that was never reset the state is that interimState for as
\* long as the callback is executing.
C30_CallbackState ==
    /\ []C30_During
    /\ [][C30_InvokeStep]_vars
    /\ [][C30_MeanwhileStep]_vars

\* the suspend callback is executing with close() and resume() pending
\* behind it: the state is suspending
C30_Witness ==
    /\ Len(submitted) = 4
    /\ ApiOf(1) = "open"
    /\ ApiOf(2) = "suspend"
    /\ {ApiOf(3), ApiOf(4)} = {"close", "resume"}
    /\ Len(inflight) = 1
    /\ inflight[1].id = 2
    /\ Len(items) = 3
    /\ current = "suspending"
    /\ resets = 0

\* the until() calls whose promise was pending when reset() replaced the
\* machine they were made on
Orphaned ==
    {w \in 1..Len(waiters) : /\ waiters[w].machine < resets
                             /\ waiters[w].promise = "pending"}

C31_OrphanStep == \A w \in Orphaned : waiters'[w] = waiters[w]

C31_ResetStep ==
    Resets =>
        /\ waiters' = waiters
        /\ stateMachine'.resolvers = {}
        /\ \A w \in 1..Len(waiters) :
              waiters[w].promise = "pending" => w \in Orphaned'

C31_ReleaseStep ==
    \A w \in 1..Len(waiters) :
        (waiters[w].promise = "pending" /\ waiters'[w].promise = "resolved")
            => /\ waiters[w].machine = resets
               /\ resets' = resets
               /\ stateMachine'.current = waiters[w].query

C31_StillWaiting ==
    \A w \in Orphaned :
        /\ waiters[w].outer = "pending"
        /\ waiters[w].saw = ""
        /\ \A k \in 1..Len(microtasks) :
              microtasks[k].kind \in {"until", "caller"} => microtasks[k].id # w

\* C31: reset() leaves the pending until() promises of the machine it
\* replaces pending and starts the new machine with an empty waiter table;
\* no later step resolves such a promise or resumes its caller, whatever
\* state the controller reaches; a transition resolves only promises of
\* until() calls made on the machine that is current.
C31_OrphanedWaiters ==
    /\ [][C31_OrphanStep]_vars
    /\ [][C31_ResetStep]_vars
    /\ [][C31_ReleaseStep]_vars
    /\ []C31_StillWaiting

\* until('opened') was called before reset() and again after it; the
\* controller then reached opened: the second call was released, the first
\* is still pending
C31_Witness ==
    /\ Len(waiters) = 2
    /\ waiters[1].query = "opened"
    /\ waiters[2].query = "opened"
    /\ waiters[1].machine = 0
    /\ waiters[2].machine = 1
    /\ resets = 1
    /\ current = "opened"
    /\ waiters[1].promise = "pending"
    /\ waiters[2].saw # ""
    /\ microtasks = <<>>

====
